---- MODULE Spec2Model ----
(***************************************************************************)
(* Model of package talker (csverse): the process supervisor Serve of      *)
(* exco.go with its health-check HTTP surface.                             *)
(*                                                                         *)
(* Serve runs four threads of control:                                     *)
(*   - the calling path            (exco.go 254-259, 318-326): servePc     *)
(*   - the health check server     (exco.go 262-299):          healthPc    *)
(*   - the health shutdown watcher (exco.go 283-293):          watchPc     *)
(*   - the lifecycle watcher       (exco.go 302-316):          lifePc      *)
(* plus one goroutine per inbound HTTP request (net/http), which runs the  *)
(* handler built by callbackToHealthCheckHandler (exco.go 213-225).        *)
(* The caller of Serve owns the stop channel: it sends signals on it and   *)
(* may close it.                                                           *)
(*                                                                         *)
(* The combinators of exco.go (Sequential, Parallel, Timeout, Retry,       *)
(* IgnoreError, Atomic; lines 30-168) are modelled as one call of one      *)
(* combinator on given callbacks, under the specification CombSpec. Spec   *)
(* is a run of Serve and leaves the combinator's state idle; CombSpec is a *)
(* combinator call and leaves Serve's state as Serve starts.               *)
(*                                                                         *)
(* The pure functions (sanitizeProcess of exco.go 185-211, Error's Wrap,   *)
(* Is and Unwrap under errors.Is, Attr's JSON encoding of enco.go) are     *)
(* applied to arguments drawn from bounded sets under the specification    *)
(* PureSpec, which leaves both Serve's and the combinator's state alone.   *)
(***************************************************************************)
EXTENDS Integers, FiniteSets, Sequences, TLC

\* ------------------------------------------------------------------ bounds

\* Signals the caller sends on the stop channel during one run.
MaxSignals == 2

\* HTTP requests the monitor port receives during one run.
MaxRequests == 2

\* ------------------------------------------------------- program constants

\* Capacity of the stop channel of the documented use, make(chan os.Signal, 1).
StopChanCap == 1

StatusOK == 200

StatusServiceUnavailable == 503

\* ------------------------------------------------------------ error values

\* A Go error value: nil, or an error with a message (err.Error()).
Nil == [isNil |-> TRUE, msg |-> ""]

Err(m) == [isNil |-> FALSE, msg |-> m]

\* Messages of the errors the user's callbacks return. "OK" is among them:
\* nothing stops a callback from failing with the text of the success body.
ErrMsgs == {"not ready", "OK"}

\* What a Callback (exco.go 15) may return. Serve calls the callbacks of the
\* sanitized Process: an absent one is emptyCallback, which returns nil, one
\* of the results below.
CallbackResults == {Nil} \cup {Err(m) : m \in ErrMsgs}

\* ------------------------------------------------------------------- state

VARIABLES
    stopSignal,     \* values buffered in the caller's stop channel
    closed,         \* the caller has closed the stop channel
    delivered,      \* signals the caller has sent so far
    mainCtx,        \* root context: "live" or "cancelled"
    stopCtx,        \* context handed to Stop: "none", "live", "cancelled"
    servePc,        \* calling path: "start", "inStart", "blocked", "returned"
    startErr,       \* what Start returned (once servePc is past "inStart")
    lifePc,         \* lifecycle watcher: "wait", "received", "inStop", "stopped", "done"
    stopErr,        \* what Stop returned (once lifePc is past "inStop")
    healthPc,       \* health server task: "init", "listening", "serving", "done", "failed"
    watchPc,        \* shutdown watcher: "none", "wait", "received", "inShutdown", "done"
    inShutdown,     \* http.Server: Shutdown has been called
    calls,          \* invocations of each of the four callbacks
    active,         \* in-flight handler goroutines per health path
    requests,       \* requests accepted so far
    lastExchange,   \* the last completed request and its response
    logs,           \* messages written to proc.Logger
    \* --- one call of a combinator
    op,             \* the combinator called ("none": no call)
    outs,           \* what each callback (for Retry: each attempt) returns
    retries,        \* Retry's retries argument
    cpc,            \* where the call is
    idx,            \* loop index of Sequential, Parallel and Retry
    retryErr,       \* Retry's local err
    ret,            \* what the combinator returned (once cpc = "done")
    events,         \* callback invocations, returns, sleeps and deadlines, in order
    ctxDone,        \* the caller's context is done
    child,          \* Timeout's derived context: "none", "live", "expired", "released"
    timeout,        \* Timeout's timeout argument, in clock ticks
    clock,          \* Timeout: ticks since the derived context was made
    earlier,        \* Timeout: the derived contexts of the closure's earlier calls
    task,           \* Parallel: state of each task's goroutine
    errChan,        \* Parallel: the buffered result channel
    wg,             \* Parallel: the WaitGroup's counter
    errs,           \* Parallel: the errors collected after the join
    \* --- one pure function applied to given arguments
    fn,             \* the function under study ("none": none)
    arg,            \* its argument
    res,            \* its result (once applied > 0)
    applied         \* how many times it has been applied

serveVars == <<stopSignal, closed, delivered, mainCtx, stopCtx, servePc,
               startErr, lifePc, stopErr, healthPc, watchPc, inShutdown,
               calls, active, requests, lastExchange, logs>>

combVars == <<op, outs, retries, cpc, idx, retryErr, ret, events, ctxDone, child,
              timeout, clock, earlier, task, errChan, wg, errs>>

pureVars == <<fn, arg, res, applied>>

vars == <<serveVars, combVars, pureVars>>

chanVars == <<stopSignal, closed, delivered>>

mainVars == <<servePc, startErr>>

lifeVars == <<lifePc, stopErr, stopCtx>>

healthVars == <<healthPc, watchPc, inShutdown>>

httpVars == <<active, requests, lastExchange>>

CallbackNames == {"Start", "Live", "Ready", "Stop"}

HealthPaths == {"/live", "/ready"}

\* Paths a client may ask for; "/other" stands for every unregistered path.
Paths == HealthPaths \cup {"/other"}

NoExchange == [path |-> "", cb |-> "", err |-> Nil, status |-> 0, body |-> ""]

\* ----------------------------------------------------------- pure helpers

\* Variant of callbackToHealthCheckHandler that forgets WriteHeader on the
\* error path, so that net/http answers with its default status 200.
callbackToHealthCheckHandlerNoHeader(err) ==
    IF ~err.isNil
        THEN [status |-> StatusOK, body |-> err.msg]
        ELSE [status |-> StatusOK, body |-> "OK"]

\* callbackToHealthCheckHandler: the response written for a callback result.
callbackToHealthCheckHandler(err) ==
    IF ~err.isNil
        THEN [status |-> StatusServiceUnavailable, body |-> err.msg]
        ELSE [status |-> StatusOK, body |-> "OK"]

\* The mux of Serve: the callback registered for a path ("" when none is).
mux(path) ==
    CASE path = "/live" -> "Live"
      [] path = "/ready" -> "Ready"
      [] OTHER -> ""

\* A receive on the stop channel can proceed: a value is buffered, or the
\* channel is closed (a receive on a closed channel returns at once).
CanReceive == stopSignal > 0 \/ closed

\* The channel after one receive: a buffered value is taken if there is one.
AfterReceive == IF stopSignal > 0 THEN stopSignal - 1 ELSE stopSignal

Log(msg) == logs \cup {msg}

LogIfErr(err) == IF err.isNil THEN logs ELSE Log(err.msg)

\* ------------------------------------------------------------------- Init

\* The state of Serve after mainCtx is made and both tasks are spawned.
ServeInit ==
    /\ stopSignal = 0
    /\ closed = FALSE
    /\ delivered = 0
    /\ mainCtx = "live"
    /\ stopCtx = "none"
    /\ servePc = "start"
    /\ startErr = Nil
    /\ lifePc = "wait"
    /\ stopErr = Nil
    /\ healthPc = "init"
    /\ watchPc = "none"
    /\ inShutdown = FALSE
    /\ calls = [c \in CallbackNames |-> 0]
    /\ active = [p \in HealthPaths |-> 0]
    /\ requests = 0
    /\ lastExchange = NoExchange
    /\ logs = {"Start process"}

\* No combinator call is in progress.
CombIdle ==
    /\ op = "none"
    /\ outs = <<>>
    /\ retries = 0
    /\ cpc = "idle"
    /\ idx = 0
    /\ retryErr = Nil
    /\ ret = Nil
    /\ events = <<>>
    /\ ctxDone = FALSE
    /\ child = "none"
    /\ timeout = 0
    /\ clock = 0
    /\ earlier = <<>>
    /\ task = <<>>
    /\ errChan = <<>>
    /\ wg = 0
    /\ errs = <<>>

\* No pure function is under study.
PureIdle ==
    /\ fn = "none"
    /\ arg = <<>>
    /\ res = <<>>
    /\ applied = 0

Init == ServeInit /\ CombIdle /\ PureIdle

\* ------------------------------------------------- the caller (environment)

\* The caller sends one signal; the send proceeds when the buffer has room.
SendSignal ==
    /\ ~closed
    /\ delivered < MaxSignals
    /\ stopSignal < StopChanCap
    /\ stopSignal' = stopSignal + 1
    /\ delivered' = delivered + 1
    /\ UNCHANGED <<combVars, pureVars, closed, mainCtx, mainVars, lifeVars,
                   healthVars, calls, httpVars, logs>>

\* The caller closes the stop channel.
CloseSignal ==
    /\ ~closed
    /\ closed' = TRUE
    /\ UNCHANGED <<combVars, pureVars, stopSignal, delivered, mainCtx,
                   mainVars, lifeVars, healthVars, calls, httpVars, logs>>

\* ------------------------------------------------------------ calling path

\* err := proc.Start(mainCtx): the call.
StartCall ==
    /\ servePc = "start"
    /\ servePc' = "inStart"
    /\ calls' = [calls EXCEPT !["Start"] = @ + 1]
    /\ UNCHANGED <<combVars, pureVars, chanVars, mainCtx, startErr, lifeVars,
                   healthVars, httpVars, logs>>

\* Variant of StartReturn in which a Start failure cancels the root context.
StartReturnCancels ==
    /\ servePc = "inStart"
    /\ \E err \in CallbackResults :
        /\ startErr' = err
        /\ logs' = LogIfErr(err)
        /\ mainCtx' = IF err.isNil THEN mainCtx ELSE "cancelled"
    /\ servePc' = "blocked"
    /\ UNCHANGED <<combVars, pureVars, chanVars, lifeVars, healthVars, calls,
                   httpVars>>

\* proc.Start returns; a non-nil error is logged.
StartReturn ==
    /\ servePc = "inStart"
    /\ \E err \in CallbackResults :
        /\ startErr' = err
        /\ logs' = LogIfErr(err)
    /\ servePc' = "blocked"
    /\ UNCHANGED <<combVars, pureVars, chanVars, mainCtx, lifeVars,
                   healthVars, calls, httpVars>>

\* Variant of ServeReturn that does not wait for the root context.
ServeReturnEarly ==
    /\ servePc = "blocked"
    /\ servePc' = "returned"
    /\ UNCHANGED <<combVars, pureVars, chanVars, mainCtx, startErr, lifeVars,
                   healthVars, calls, httpVars, logs>>

\* Variant of ServeReturn for a Start that runs in a goroutine of its own:
\* the wait on the root context does not come after Start's return.
ServeReturnWhileStarting ==
    /\ servePc \in {"inStart", "blocked"}
    /\ mainCtx = "cancelled"
    /\ servePc' = "returned"
    /\ UNCHANGED <<combVars, pureVars, chanVars, mainCtx, startErr, lifeVars,
                   healthVars, calls, httpVars, logs>>

\* <-mainCtx.Done(): Serve returns.
ServeReturn ==
    /\ servePc = "blocked"
    /\ mainCtx = "cancelled"
    /\ servePc' = "returned"
    /\ UNCHANGED <<combVars, pureVars, chanVars, mainCtx, startErr, lifeVars,
                   healthVars, calls, httpVars, logs>>

\* ------------------------------------------------------- lifecycle watcher

\* <-stopSignal, then the "Stop process" log line and the fresh stopCtx.
LifeReceive ==
    /\ lifePc = "wait"
    /\ CanReceive
    /\ stopSignal' = AfterReceive
    /\ lifePc' = "received"
    /\ stopCtx' = "live"
    /\ logs' = Log("Stop process")
    /\ UNCHANGED <<combVars, pureVars, closed, delivered, mainCtx, mainVars,
                   stopErr, healthVars, calls, httpVars>>

\* Variant of StopCall that cancels the root context before invoking Stop.
StopCallCancelsFirst ==
    /\ lifePc = "received"
    /\ lifePc' = "inStop"
    /\ mainCtx' = "cancelled"
    /\ calls' = [calls EXCEPT !["Stop"] = @ + 1]
    /\ UNCHANGED <<combVars, pureVars, chanVars, mainVars, stopErr, stopCtx,
                   healthVars, httpVars, logs>>

\* Variant of StopCall that calls stopCancel() before it invokes Stop.
StopCallReleasesFirst ==
    /\ lifePc = "received"
    /\ lifePc' = "inStop"
    /\ stopCtx' = "cancelled"
    /\ calls' = [calls EXCEPT !["Stop"] = @ + 1]
    /\ UNCHANGED <<combVars, pureVars, chanVars, mainCtx, mainVars, stopErr,
                   healthVars, httpVars, logs>>

\* err := proc.Stop(stopCtx): the call.
StopCall ==
    /\ lifePc = "received"
    /\ lifePc' = "inStop"
    /\ calls' = [calls EXCEPT !["Stop"] = @ + 1]
    /\ UNCHANGED <<combVars, pureVars, chanVars, mainCtx, mainVars, stopErr,
                   stopCtx, healthVars, httpVars, logs>>

\* Variant of StopReturn that invokes Stop again when it failed.
StopReturnRetries ==
    /\ lifePc = "inStop"
    /\ \E err \in CallbackResults :
        /\ stopErr' = err
        /\ logs' = LogIfErr(err)
        /\ lifePc' = IF err.isNil THEN "stopped" ELSE "received"
    /\ UNCHANGED <<combVars, pureVars, chanVars, mainCtx, mainVars, stopCtx,
                   healthVars, calls, httpVars>>

\* Variant of StopReturn in which the watcher returns after logging Stop's
\* error, without reaching the cancels.
StopReturnGivesUpOnError ==
    /\ lifePc = "inStop"
    /\ \E err \in CallbackResults :
        /\ stopErr' = err
        /\ logs' = LogIfErr(err)
        /\ lifePc' = IF err.isNil THEN "stopped" ELSE "done"
    /\ UNCHANGED <<combVars, pureVars, chanVars, mainCtx, mainVars, stopCtx,
                   healthVars, calls, httpVars>>

\* proc.Stop returns; a non-nil error is logged.
StopReturn ==
    /\ lifePc = "inStop"
    /\ \E err \in CallbackResults :
        /\ stopErr' = err
        /\ logs' = LogIfErr(err)
    /\ lifePc' = "stopped"
    /\ UNCHANGED <<combVars, pureVars, chanVars, mainCtx, mainVars, stopCtx,
                   healthVars, calls, httpVars>>

\* Variant of LifeCancel without the mainCancel().
LifeCancelKeepsRoot ==
    /\ lifePc = "stopped"
    /\ stopCtx' = "cancelled"
    /\ lifePc' = "done"
    /\ UNCHANGED <<combVars, pureVars, chanVars, mainCtx, mainVars, stopErr,
                   healthVars, calls, httpVars, logs>>

\* stopCancel(); mainCancel(); the watcher ends.
LifeCancel ==
    /\ lifePc = "stopped"
    /\ stopCtx' = "cancelled"
    /\ mainCtx' = "cancelled"
    /\ lifePc' = "done"
    /\ UNCHANGED <<combVars, pureVars, chanVars, mainVars, stopErr,
                   healthVars, calls, httpVars, logs>>

\* ------------------------------------------------------ health check server

\* net.Listen succeeds: the address is logged and the watcher is spawned.
ListenOk ==
    /\ healthPc = "init"
    /\ healthPc' = "listening"
    /\ watchPc' = "wait"
    /\ logs' = Log("Monitor address")
    /\ UNCHANGED <<combVars, pureVars, chanVars, mainCtx, mainVars, lifeVars,
                   inShutdown, calls, httpVars>>

\* Variant of ListenFail in which the shutdown watcher is spawned before the
\* bind is known to have failed.
ListenFailStillWatches ==
    /\ healthPc = "init"
    /\ healthPc' = "failed"
    /\ watchPc' = "wait"
    /\ logs' = Log("listen error")
    /\ UNCHANGED <<combVars, pureVars, chanVars, mainCtx, mainVars, lifeVars,
                   inShutdown, calls, httpVars>>

\* net.Listen fails: the error is logged and the task returns.
ListenFail ==
    /\ healthPc = "init"
    /\ healthPc' = "failed"
    /\ logs' = Log("listen error")
    /\ UNCHANGED <<combVars, pureVars, chanVars, mainCtx, mainVars, lifeVars,
                   watchPc, inShutdown, calls, httpVars>>

\* server.Serve(listener) is called: the accept loop starts, unless Shutdown
\* was called already, when Serve returns ErrServerClosed at once.
ServerServe ==
    /\ healthPc = "listening"
    /\ IF inShutdown
          THEN /\ healthPc' = "done"
               /\ logs' = Log("http: Server closed")
          ELSE /\ healthPc' = "serving"
               /\ logs' = logs
    /\ UNCHANGED <<combVars, pureVars, chanVars, mainCtx, mainVars, lifeVars,
                   watchPc, inShutdown, calls, httpVars>>

\* The accept loop ends because Shutdown closed the listener:
\* server.Serve returns ErrServerClosed, which is logged; listener.Close().
ServerClosed ==
    /\ healthPc = "serving"
    /\ inShutdown
    /\ healthPc' = "done"
    /\ logs' = Log("http: Server closed")
    /\ UNCHANGED <<combVars, pureVars, chanVars, mainCtx, mainVars, lifeVars,
                   watchPc, inShutdown, calls, httpVars>>

\* The accept loop ends on an accept error: server.Serve returns it, it is
\* logged, and the deferred listener.Close() runs.
ServerFail ==
    /\ healthPc = "serving"
    /\ ~inShutdown
    /\ healthPc' = "done"
    /\ logs' = Log("accept error")
    /\ UNCHANGED <<combVars, pureVars, chanVars, mainCtx, mainVars, lifeVars,
                   watchPc, inShutdown, calls, httpVars>>

\* -------------------------------------------------- health shutdown watcher

\* <-stopSignal in the watcher spawned after a successful bind.
WatchReceive ==
    /\ watchPc = "wait"
    /\ CanReceive
    /\ stopSignal' = AfterReceive
    /\ watchPc' = "received"
    /\ UNCHANGED <<combVars, pureVars, closed, delivered, mainCtx, mainVars,
                   lifeVars, healthPc, inShutdown, calls, httpVars, logs>>

\* server.Shutdown(ctx) is called with the 30 second budget: the server stops
\* accepting and waits for the in-flight requests.
ShutdownCall ==
    /\ watchPc = "received"
    /\ watchPc' = "inShutdown"
    /\ inShutdown' = TRUE
    /\ UNCHANGED <<combVars, pureVars, chanVars, mainCtx, mainVars, lifeVars,
                   healthPc, calls, httpVars, logs>>

\* server.Shutdown returns nil: no request is in flight.
ShutdownReturn ==
    /\ watchPc = "inShutdown"
    /\ \A p \in HealthPaths : active[p] = 0
    /\ watchPc' = "done"
    /\ UNCHANGED <<combVars, pureVars, chanVars, mainCtx, mainVars, lifeVars,
                   healthPc, inShutdown, calls, httpVars, logs>>

\* server.Shutdown returns the context's error: the 30 seconds elapsed with a
\* request still in flight; the error is logged.
ShutdownTimeout ==
    /\ watchPc = "inShutdown"
    /\ \E p \in HealthPaths : active[p] > 0
    /\ watchPc' = "done"
    /\ logs' = Log("context deadline exceeded")
    /\ UNCHANGED <<combVars, pureVars, chanVars, mainCtx, mainVars, lifeVars,
                   healthPc, inShutdown, calls, httpVars>>

\* ------------------------------------------------------------ HTTP requests

\* The accept loop takes a request. On a health path the handler of
\* callbackToHealthCheckHandler starts and invokes its callback; any other
\* path is answered 404 by the mux.
RequestBegin ==
    /\ healthPc = "serving"
    /\ ~inShutdown
    /\ requests < MaxRequests
    /\ requests' = requests + 1
    /\ \E path \in Paths :
        IF mux(path) # ""
            THEN /\ active' = [active EXCEPT ![path] = @ + 1]
                 /\ calls' = [calls EXCEPT ![mux(path)] = @ + 1]
                 /\ lastExchange' = lastExchange
            ELSE /\ lastExchange' = [path |-> path, cb |-> "", err |-> Nil,
                                     status |-> 404,
                                     body |-> "404 page not found"]
                 /\ UNCHANGED <<active, calls>>
    /\ UNCHANGED <<combVars, pureVars, chanVars, mainCtx, mainVars, lifeVars,
                   healthVars, logs>>

\* Variant of RequestEnd in which a failed health check cancels the root
\* context.
RequestEndCancelsOnError ==
    /\ \E path \in HealthPaths :
        /\ active[path] > 0
        /\ active' = [active EXCEPT ![path] = @ - 1]
        /\ \E err \in CallbackResults :
            LET resp == callbackToHealthCheckHandler(err) IN
            /\ lastExchange' = [path |-> path, cb |-> mux(path), err |-> err,
                                status |-> resp.status, body |-> resp.body]
            /\ mainCtx' = IF err.isNil THEN mainCtx ELSE "cancelled"
    /\ UNCHANGED <<combVars, pureVars, chanVars, mainVars, lifeVars,
                   healthVars, calls, requests, logs>>

\* The callback of an in-flight handler returns and the response is written.
RequestEnd ==
    /\ \E path \in HealthPaths :
        /\ active[path] > 0
        /\ active' = [active EXCEPT ![path] = @ - 1]
        /\ \E err \in CallbackResults :
            LET resp == callbackToHealthCheckHandler(err) IN
            lastExchange' = [path |-> path, cb |-> mux(path), err |-> err,
                             status |-> resp.status, body |-> resp.body]
    /\ UNCHANGED <<combVars, pureVars, chanVars, mainCtx, mainVars, lifeVars,
                   healthVars, calls, requests, logs>>

\* ------------------------------------------------------------ specification

\* The steps of Serve's own goroutines and handlers.
ProgramNext ==
    \/ StartCall \/ StartReturn \/ ServeReturn
    \/ LifeReceive \/ StopCall \/ StopReturn \/ LifeCancel
    \/ ListenOk \/ ListenFail \/ ServerServe \/ ServerClosed
    \/ WatchReceive \/ ShutdownCall \/ ShutdownReturn \/ ShutdownTimeout
    \/ RequestEnd

\* The steps of the caller, of the HTTP clients and of the network (an accept
\* error).
EnvNext == SendSignal \/ CloseSignal \/ RequestBegin \/ ServerFail

Next == ProgramNext \/ EnvNext

Spec == Init /\ [][Next]_vars

\* ------------------------------------------------------------- combinators

\* Callbacks handed to Sequential in one call.
MaxCallbacks == 3

\* Callbacks handed to Parallel in one call.
MaxTasks == 2

\* Largest retries argument handed to Retry.
MaxRetries == 3

\* Largest timeout handed to Timeout, in clock ticks.
MaxTimeout == 2

\* Ticks a callback of Timeout may run for.
MaxClock == 3

\* Calls of one closure returned by Timeout.
MaxInvocations == 2

\* ctx.Err() of a context whose deadline has passed.
DeadlineExceeded == Err("context deadline exceeded")

\* What a callback handed to a combinator may return.
CombResults == CallbackResults \cup {DeadlineExceeded}

Ops == {"Sequential", "Parallel", "Timeout", "Retry", "IgnoreError", "Atomic"}

inputVars == <<op, outs, retries, timeout>>

timeoutVars == <<clock, earlier>>

parVars == <<task, errChan, wg, errs>>

\* An observed event. cb is the callback's index as Go counts it, from 0
\* (Atomic: 0 is commit, 1 is rollback); ctx names the context it was given.
Event(kind, cb, ctx) == [kind |-> kind, cb |-> cb, ctx |-> ctx]

\* The callback with Go index i returns outs[i + 1].
Out(i) == outs[i + 1]

Max(a, b) == IF a >= b THEN a ELSE b

\* One call of one combinator: the combinator, its callbacks' results and
\* the caller's context, which may be done already.
CombInit ==
    /\ ServeInit
    /\ PureIdle
    /\ op \in Ops
    /\ retries \in IF op = "Retry" THEN -1..MaxRetries ELSE {0}
    /\ outs \in CASE op = "Sequential" ->
                        UNION {[1..k -> CombResults] : k \in 0..MaxCallbacks}
                  [] op = "Parallel" ->
                        UNION {[1..k -> CombResults] : k \in 0..MaxTasks}
                  [] op = "Retry" -> [1..Max(retries, 1) -> CombResults]
                  [] op = "Atomic" -> [1..2 -> CombResults]
                  [] OTHER -> [1..1 -> CombResults]
    /\ cpc = "run"
    /\ idx = 0
    /\ retryErr = Nil
    /\ ret = Nil
    /\ events = <<>>
    /\ ctxDone \in BOOLEAN
    /\ child = "none"
    /\ timeout \in IF op = "Timeout" THEN 0..MaxTimeout ELSE {0}
    /\ clock = 0
    /\ earlier = <<>>
    /\ task = IF op = "Parallel" THEN [i \in 1..Len(outs) |-> "new"] ELSE <<>>
    /\ errChan = <<>>
    /\ wg = 0
    /\ errs = <<>>

\* The caller cancels the context it handed to the combinator.
CallerCancel ==
    /\ op # "none"
    /\ cpc # "done"
    /\ ~ctxDone
    /\ ctxDone' = TRUE
    /\ UNCHANGED <<serveVars, pureVars, inputVars, timeoutVars, cpc, idx,
                   retryErr, ret, events, child, parVars>>

\* ---- Sequential (exco.go 30-40)

\* Variant of SequentialCall that leaves the loop with break on an error, so
\* that the trailing return nil is reached.
SequentialCallBreaks ==
    /\ op = "Sequential"
    /\ cpc = "run"
    /\ idx < Len(outs)
    /\ events' = Append(events, Event("call", idx, "caller"))
    /\ IF ~Out(idx).isNil
          THEN /\ ret' = Nil
               /\ cpc' = "done"
               /\ idx' = idx
          ELSE /\ idx' = idx + 1
               /\ UNCHANGED <<ret, cpc>>
    /\ UNCHANGED <<serveVars, pureVars, inputVars, timeoutVars, retryErr,
                   ctxDone, child, parVars>>

\* One turn of the loop: the next callback is invoked with ctx; its error,
\* if any, is returned at once.
SequentialCall ==
    /\ op = "Sequential"
    /\ cpc = "run"
    /\ idx < Len(outs)
    /\ events' = Append(events, Event("call", idx, "caller"))
    /\ IF ~Out(idx).isNil
          THEN /\ ret' = Out(idx)
               /\ cpc' = "done"
               /\ idx' = idx
          ELSE /\ idx' = idx + 1
               /\ UNCHANGED <<ret, cpc>>
    /\ UNCHANGED <<serveVars, pureVars, inputVars, timeoutVars, retryErr,
                   ctxDone, child, parVars>>

\* The loop is over: return nil.
SequentialReturn ==
    /\ op = "Sequential"
    /\ cpc = "run"
    /\ idx >= Len(outs)
    /\ ret' = Nil
    /\ cpc' = "done"
    /\ UNCHANGED <<serveVars, pureVars, inputVars, timeoutVars, idx,
                   retryErr, events, ctxDone, child, parVars>>

\* ---- Retry (exco.go 113-128)

\* Variant of RetryLoopCond that makes at least one attempt.
RetryLoopCondAtLeastOnce == idx < retries \/ idx = 0

\* The loop condition i < retries.
RetryLoopCond == idx < retries

\* Variant of RetryAttempt that keeps the first error instead of the last.
RetryAttemptKeepsFirst ==
    /\ op = "Retry"
    /\ cpc = "run"
    /\ RetryLoopCond
    /\ events' = Append(events, Event("call", 0, "caller"))
    /\ retryErr' = IF retryErr.isNil THEN Out(idx) ELSE retryErr
    /\ IF Out(idx).isNil
          THEN /\ ret' = Nil
               /\ cpc' = "done"
          ELSE /\ ret' = ret
               /\ cpc' = "sleep"
    /\ UNCHANGED <<serveVars, pureVars, inputVars, timeoutVars, idx, ctxDone,
                   child, parVars>>

\* Variant of RetryAttempt that looks at the context first and returns its
\* error, without an attempt, when it is done.
RetryAttemptChecksCtx ==
    /\ op = "Retry"
    /\ cpc = "run"
    /\ RetryLoopCond
    /\ IF ctxDone
          THEN /\ ret' = DeadlineExceeded
               /\ cpc' = "done"
               /\ UNCHANGED <<events, retryErr>>
          ELSE /\ events' = Append(events, Event("call", 0, "caller"))
               /\ retryErr' = Out(idx)
               /\ IF Out(idx).isNil
                     THEN /\ ret' = Nil
                          /\ cpc' = "done"
                     ELSE /\ ret' = ret
                          /\ cpc' = "sleep"
    /\ UNCHANGED <<serveVars, pureVars, inputVars, timeoutVars, idx, ctxDone,
                   child, parVars>>

\* err = callback(ctx); a nil err is returned at once.
RetryAttempt ==
    /\ op = "Retry"
    /\ cpc = "run"
    /\ RetryLoopCond
    /\ events' = Append(events, Event("call", 0, "caller"))
    /\ retryErr' = Out(idx)
    /\ IF Out(idx).isNil
          THEN /\ ret' = Nil
               /\ cpc' = "done"
          ELSE /\ ret' = ret
               /\ cpc' = "sleep"
    /\ UNCHANGED <<serveVars, pureVars, inputVars, timeoutVars, idx, ctxDone,
                   child, parVars>>

\* time.Sleep(delay) after a failed attempt, then i++.
RetrySleep ==
    /\ op = "Retry"
    /\ cpc = "sleep"
    /\ events' = Append(events, Event("sleep", 0, ""))
    /\ idx' = idx + 1
    /\ cpc' = "run"
    /\ UNCHANGED <<serveVars, pureVars, inputVars, timeoutVars, retryErr,
                   ret, ctxDone, child, parVars>>

\* Variant of RetryReturn that ends with return nil.
RetryReturnNil ==
    /\ op = "Retry"
    /\ cpc = "run"
    /\ ~RetryLoopCond
    /\ ret' = Nil
    /\ cpc' = "done"
    /\ UNCHANGED <<serveVars, pureVars, inputVars, timeoutVars, idx,
                   retryErr, events, ctxDone, child, parVars>>

\* The loop is over: return err.
RetryReturn ==
    /\ op = "Retry"
    /\ cpc = "run"
    /\ ~RetryLoopCond
    /\ ret' = retryErr
    /\ cpc' = "done"
    /\ UNCHANGED <<serveVars, pureVars, inputVars, timeoutVars, idx,
                   retryErr, events, ctxDone, child, parVars>>

\* ---- IgnoreError (exco.go 139-144)

\* Variant of IgnoreErrorCall that returns what the callback returned.
IgnoreErrorCallKeepsError ==
    /\ op = "IgnoreError"
    /\ cpc = "run"
    /\ events' = Append(events, Event("call", 0, "caller"))
    /\ ret' = Out(0)
    /\ cpc' = "done"
    /\ UNCHANGED <<serveVars, pureVars, inputVars, timeoutVars, idx,
                   retryErr, ctxDone, child, parVars>>

\* _ = callback(ctx); return nil.
IgnoreErrorCall ==
    /\ op = "IgnoreError"
    /\ cpc = "run"
    /\ events' = Append(events, Event("call", 0, "caller"))
    /\ ret' = Nil
    /\ cpc' = "done"
    /\ UNCHANGED <<serveVars, pureVars, inputVars, timeoutVars, idx,
                   retryErr, ctxDone, child, parVars>>

\* ---- Atomic (exco.go 159-168)

\* err := commit(ctx); without an error nil is returned.
AtomicCommit ==
    /\ op = "Atomic"
    /\ cpc = "run"
    /\ events' = Append(events, Event("call", 0, "caller"))
    /\ IF ~Out(0).isNil
          THEN /\ cpc' = "rollback"
               /\ ret' = ret
          ELSE /\ cpc' = "done"
               /\ ret' = Nil
    /\ UNCHANGED <<serveVars, pureVars, inputVars, timeoutVars, idx,
                   retryErr, ctxDone, child, parVars>>

\* Variant of AtomicRollback that returns commit's error when the rollback
\* succeeded.
AtomicRollbackKeepsCommitErr ==
    /\ op = "Atomic"
    /\ cpc = "rollback"
    /\ events' = Append(events, Event("call", 1, "caller"))
    /\ ret' = IF Out(1).isNil THEN Out(0) ELSE Out(1)
    /\ cpc' = "done"
    /\ UNCHANGED <<serveVars, pureVars, inputVars, timeoutVars, idx,
                   retryErr, ctxDone, child, parVars>>

\* return rollback(ctx).
AtomicRollback ==
    /\ op = "Atomic"
    /\ cpc = "rollback"
    /\ events' = Append(events, Event("call", 1, "caller"))
    /\ ret' = Out(1)
    /\ cpc' = "done"
    /\ UNCHANGED <<serveVars, pureVars, inputVars, timeoutVars, idx,
                   retryErr, ctxDone, child, parVars>>

\* ---- Timeout (exco.go 93-100)

\* Time is counted in ticks from context.WithTimeout on. The timer of the
\* derived context fires when timeout ticks have passed; a timeout that is
\* not positive yields a context that is expired from the start.

\* Variant of TimeoutCall that hands the caller's context to the callback.
TimeoutCallPassesCallerCtx ==
    /\ op = "Timeout"
    /\ cpc = "run"
    /\ child' = IF timeout <= 0 THEN "expired" ELSE "live"
    /\ clock' = 0
    /\ events' = IF timeout <= 0
                    THEN events \o <<Event("deadline", 0, "child"),
                                     Event("call", 0, "caller")>>
                    ELSE Append(events, Event("call", 0, "caller"))
    /\ cpc' = "inCb"
    /\ UNCHANGED <<serveVars, pureVars, inputVars, earlier, idx, retryErr,
                   ret, ctxDone, parVars>>

\* ctx, cancel := context.WithTimeout(ctx, timeout), and the callback is
\* invoked with the derived context.
TimeoutCall ==
    /\ op = "Timeout"
    /\ cpc = "run"
    /\ child' = IF timeout <= 0 THEN "expired" ELSE "live"
    /\ clock' = 0
    /\ events' = IF timeout <= 0
                    THEN events \o <<Event("deadline", 0, "child"),
                                     Event("call", 0, "child")>>
                    ELSE Append(events, Event("call", 0, "child"))
    /\ cpc' = "inCb"
    /\ UNCHANGED <<serveVars, pureVars, inputVars, earlier, idx, retryErr,
                   ret, ctxDone, parVars>>

\* A tick passes while the callback runs. Time does not pass the deadline
\* without the timer firing.
TimeoutTick ==
    /\ op = "Timeout"
    /\ cpc = "inCb"
    /\ clock < MaxClock
    /\ child = "live" => clock < timeout
    /\ clock' = clock + 1
    /\ UNCHANGED <<serveVars, pureVars, inputVars, earlier, cpc, idx,
                   retryErr, ret, events, ctxDone, child, parVars>>

\* The timeout has elapsed: the derived context's timer fires.
TimeoutDeadline ==
    /\ op = "Timeout"
    /\ child = "live"
    /\ clock >= timeout
    /\ child' = "expired"
    /\ events' = Append(events, Event("deadline", 0, "child"))
    /\ UNCHANGED <<serveVars, pureVars, inputVars, timeoutVars, cpc, idx,
                   retryErr, ret, ctxDone, parVars>>

\* Variant of TimeoutCbReturn that answers with the context's error when
\* the deadline has passed.
TimeoutCbReturnDeadlineWins ==
    /\ op = "Timeout"
    /\ cpc = "inCb"
    /\ events' = Append(events, Event("return", 0, "child"))
    /\ ret' = IF child = "expired" THEN DeadlineExceeded ELSE Out(0)
    /\ cpc' = "deferred"
    /\ UNCHANGED <<serveVars, pureVars, inputVars, timeoutVars, idx,
                   retryErr, ctxDone, child, parVars>>

\* The callback returns; its result is Timeout's result.
TimeoutCbReturn ==
    /\ op = "Timeout"
    /\ cpc = "inCb"
    /\ events' = Append(events, Event("return", 0, "child"))
    /\ ret' = Out(0)
    /\ cpc' = "deferred"
    /\ UNCHANGED <<serveVars, pureVars, inputVars, timeoutVars, idx,
                   retryErr, ctxDone, child, parVars>>

\* Variant of TimeoutRelease that calls cancel() only when the callback
\* succeeded (a cancel() placed after the call instead of deferred).
TimeoutReleaseOnSuccess ==
    /\ op = "Timeout"
    /\ cpc = "deferred"
    /\ child' = IF ret.isNil THEN "released" ELSE child
    /\ cpc' = "done"
    /\ UNCHANGED <<serveVars, pureVars, inputVars, timeoutVars, idx,
                   retryErr, ret, events, ctxDone, parVars>>

\* The deferred cancel() releases the derived context and Timeout returns.
TimeoutRelease ==
    /\ op = "Timeout"
    /\ cpc = "deferred"
    /\ child' = "released"
    /\ cpc' = "done"
    /\ UNCHANGED <<serveVars, pureVars, inputVars, timeoutVars, idx,
                   retryErr, ret, events, ctxDone, parVars>>

\* The closure Timeout returned is called again, with a context of the
\* caller's and a callback result of its own.
TimeoutAgain ==
    /\ op = "Timeout"
    /\ cpc = "done"
    /\ Len(earlier) + 1 < MaxInvocations
    /\ earlier' = Append(earlier, child)
    /\ child' = "none"
    /\ clock' = 0
    /\ outs' \in [1..1 -> CombResults]
    /\ ctxDone' \in BOOLEAN
    /\ cpc' = "run"
    /\ ret' = Nil
    /\ events' = <<>>
    /\ UNCHANGED <<serveVars, pureVars, op, retries, timeout, idx, retryErr,
                   parVars>>

\* ---- Parallel (exco.go 55-81)

\* errors.Join of the collected (non-nil) errors: nil when there is none.
Join(es) ==
    IF es = <<>> THEN Nil
    ELSE [isNil |-> FALSE, msg |-> "joined", errs |-> es]

\* One turn of the spawning loop: wg.Add(1) and the go statement.
ParallelSpawn ==
    /\ op = "Parallel"
    /\ cpc = "run"
    /\ idx < Len(outs)
    /\ wg' = wg + 1
    /\ task' = [task EXCEPT ![idx + 1] = "spawned"]
    /\ idx' = idx + 1
    /\ UNCHANGED <<serveVars, pureVars, inputVars, timeoutVars, cpc,
                   retryErr, ret, events, ctxDone, child, errChan, errs>>

\* The goroutine of task i invokes its callback with ctx.
TaskCall(i) ==
    /\ op = "Parallel"
    /\ task[i] = "spawned"
    /\ task' = [task EXCEPT ![i] = "running"]
    /\ events' = Append(events, Event("call", i - 1, "caller"))
    /\ UNCHANGED <<serveVars, pureVars, inputVars, timeoutVars, cpc, idx,
                   retryErr, ret, ctxDone, child, errChan, wg, errs>>

\* Variant of TaskSend that cancels the shared context when the callback
\* failed.
TaskSendCancelsOnError(i) ==
    /\ op = "Parallel"
    /\ task[i] = "running"
    /\ Len(errChan) < Len(outs)
    /\ task' = [task EXCEPT ![i] = "sent"]
    /\ errChan' = Append(errChan, outs[i])
    /\ events' = Append(events, Event("return", i - 1, "caller"))
    /\ ctxDone' = (ctxDone \/ ~outs[i].isNil)
    /\ UNCHANGED <<serveVars, pureVars, inputVars, timeoutVars, cpc, idx,
                   retryErr, ret, child, wg, errs>>

\* Variant of TaskSend for an errChan made without a capacity: the send
\* waits for a receiver, and the receives come only after wg.Wait().
TaskSendUnbuffered(i) ==
    /\ op = "Parallel"
    /\ task[i] = "running"
    /\ cpc = "collect"
    /\ task' = [task EXCEPT ![i] = "sent"]
    /\ errChan' = Append(errChan, outs[i])
    /\ events' = Append(events, Event("return", i - 1, "caller"))
    /\ UNCHANGED <<serveVars, pureVars, inputVars, timeoutVars, cpc, idx,
                   retryErr, ret, ctxDone, child, wg, errs>>

\* The callback of task i returns and its result is sent into errChan,
\* whose capacity is len(callbacks).
TaskSend(i) ==
    /\ op = "Parallel"
    /\ task[i] = "running"
    /\ Len(errChan) < Len(outs)
    /\ task' = [task EXCEPT ![i] = "sent"]
    /\ errChan' = Append(errChan, outs[i])
    /\ events' = Append(events, Event("return", i - 1, "caller"))
    /\ UNCHANGED <<serveVars, pureVars, inputVars, timeoutVars, cpc, idx,
                   retryErr, ret, ctxDone, child, wg, errs>>

\* The deferred w.Done() of task i; its goroutine ends.
TaskDone(i) ==
    /\ op = "Parallel"
    /\ task[i] = "sent"
    /\ task' = [task EXCEPT ![i] = "done"]
    /\ wg' = wg - 1
    /\ UNCHANGED <<serveVars, pureVars, inputVars, timeoutVars, cpc, idx,
                   retryErr, ret, events, ctxDone, child, errChan, errs>>

\* Variant of ParallelWait without the wg.Wait().
ParallelWaitNoWait ==
    /\ op = "Parallel"
    /\ cpc = "run"
    /\ idx >= Len(outs)
    /\ cpc' = "collect"
    /\ idx' = 0
    /\ errs' = <<>>
    /\ UNCHANGED <<serveVars, pureVars, inputVars, timeoutVars, retryErr,
                   ret, events, ctxDone, child, task, errChan, wg>>

\* wg.Wait() returns, all tasks being done; errs := []error{}.
ParallelWait ==
    /\ op = "Parallel"
    /\ cpc = "run"
    /\ idx >= Len(outs)
    /\ wg = 0
    /\ cpc' = "collect"
    /\ idx' = 0
    /\ errs' = <<>>
    /\ UNCHANGED <<serveVars, pureVars, inputVars, timeoutVars, retryErr,
                   ret, events, ctxDone, child, task, errChan, wg>>

\* Variant of ParallelCollect that stops collecting at the first error.
ParallelCollectFirstError ==
    /\ op = "Parallel"
    /\ cpc = "collect"
    /\ idx < Len(outs)
    /\ errChan # <<>>
    /\ errChan' = Tail(errChan)
    /\ errs' = IF Head(errChan).isNil THEN errs
               ELSE Append(errs, Head(errChan))
    /\ idx' = IF Head(errChan).isNil THEN idx + 1 ELSE Len(outs)
    /\ UNCHANGED <<serveVars, pureVars, inputVars, timeoutVars, cpc,
                   retryErr, ret, events, ctxDone, child, task, wg>>

\* One turn of the collecting loop: a receive from errChan; a non-nil
\* error is appended to errs.
ParallelCollect ==
    /\ op = "Parallel"
    /\ cpc = "collect"
    /\ idx < Len(outs)
    /\ errChan # <<>>
    /\ errChan' = Tail(errChan)
    /\ errs' = IF Head(errChan).isNil THEN errs
               ELSE Append(errs, Head(errChan))
    /\ idx' = idx + 1
    /\ UNCHANGED <<serveVars, pureVars, inputVars, timeoutVars, cpc,
                   retryErr, ret, events, ctxDone, child, task, wg>>

\* return errors.Join(errs...).
ParallelReturn ==
    /\ op = "Parallel"
    /\ cpc = "collect"
    /\ idx >= Len(outs)
    /\ ret' = Join(errs)
    /\ cpc' = "done"
    /\ UNCHANGED <<serveVars, pureVars, inputVars, timeoutVars, idx,
                   retryErr, events, ctxDone, child, parVars>>

\* The steps of the tasks' goroutines, whichever task takes one.
TasksCall == \E i \in DOMAIN task : TaskCall(i)

TasksSend == \E i \in DOMAIN task : TaskSend(i)

TasksDone == \E i \in DOMAIN task : TaskDone(i)

\* ---- the specification of a combinator call

CombNext ==
    \/ CallerCancel
    \/ SequentialCall \/ SequentialReturn
    \/ RetryAttempt \/ RetrySleep \/ RetryReturn
    \/ IgnoreErrorCall
    \/ AtomicCommit \/ AtomicRollback
    \/ TimeoutCall \/ TimeoutTick \/ TimeoutDeadline \/ TimeoutCbReturn
    \/ TimeoutRelease \/ TimeoutAgain
    \/ ParallelSpawn \/ ParallelWait \/ ParallelCollect \/ ParallelReturn
    \/ TasksCall \/ TasksSend \/ TasksDone

CombSpec == CombInit /\ [][CombNext]_vars

\* The steps of a Parallel call: those of the caller's path and those of
\* the tasks' goroutines.
ParallelNext ==
    \/ ParallelSpawn \/ ParallelWait \/ ParallelCollect \/ ParallelReturn
    \/ TasksCall \/ TasksSend \/ TasksDone

\* A combinator call under a scheduler that lets a goroutine that can take
\* a step take one, with callbacks that return.
FairCombSpec == CombSpec /\ WF_vars(ParallelNext)

\* ------------------------------------------------------ pure functions
\* sanitizeProcess (exco.go 185-211), applied to a given Process.

\* Applications of a function to its own result.
MaxApplied == 2

\* A Callback value: nil, or a function that returns ret.
NilCallback == [isNil |-> TRUE, name |-> "", ret |-> Nil]

\* func emptyCallback(ctx) error { return nil }
emptyCallback == [isNil |-> FALSE, name |-> "emptyCallback", ret |-> Nil]

\* The callbacks a caller may put into a Process.
UserCallbacks ==
    {[isNil |-> FALSE, name |-> "user", ret |-> r] : r \in CallbackResults}

\* A *slog.Logger: nil, the caller's, or the one made by the n-th
\* application of sanitizeProcess (each slog.New yields a new logger).
NilLogger == [isNil |-> TRUE, madeBy |-> -1]

UserLogger == [isNil |-> FALSE, madeBy |-> 0]

NewJSONLogger(n) == [isNil |-> FALSE, madeBy |-> n]

\* The Process values handed to sanitizeProcess.
Processes ==
    [Start : UserCallbacks \cup {NilCallback},
     Live : UserCallbacks \cup {NilCallback},
     Ready : UserCallbacks \cup {NilCallback},
     Stop : UserCallbacks \cup {NilCallback},
     Logger : {NilLogger, UserLogger},
     MonitorAddr : {"", ":8086"}]

\* Variant of sanitizeProcess whose Stop branch assigns proc.Start.
sanitizeProcessStopSlip(proc, n) ==
    [Start |-> IF proc.Start.isNil \/ proc.Stop.isNil
                  THEN emptyCallback ELSE proc.Start,
     Live |-> IF proc.Live.isNil THEN emptyCallback ELSE proc.Live,
     Ready |-> IF proc.Ready.isNil THEN emptyCallback ELSE proc.Ready,
     Stop |-> proc.Stop,
     Logger |-> IF proc.Logger.isNil THEN NewJSONLogger(n) ELSE proc.Logger,
     MonitorAddr |-> IF proc.MonitorAddr = "" THEN ":0" ELSE proc.MonitorAddr]

\* Variant of sanitizeProcess that makes a logger whether or not one is set.
sanitizeProcessNewLogger(proc, n) ==
    [Start |-> IF proc.Start.isNil THEN emptyCallback ELSE proc.Start,
     Live |-> IF proc.Live.isNil THEN emptyCallback ELSE proc.Live,
     Ready |-> IF proc.Ready.isNil THEN emptyCallback ELSE proc.Ready,
     Stop |-> IF proc.Stop.isNil THEN emptyCallback ELSE proc.Stop,
     Logger |-> NewJSONLogger(n),
     MonitorAddr |-> IF proc.MonitorAddr = "" THEN ":0" ELSE proc.MonitorAddr]

\* sanitizeProcess in its n-th application: each of the six fields is
\* replaced by its default when it has its zero value.
sanitizeProcess(proc, n) ==
    [Start |-> IF proc.Start.isNil THEN emptyCallback ELSE proc.Start,
     Live |-> IF proc.Live.isNil THEN emptyCallback ELSE proc.Live,
     Ready |-> IF proc.Ready.isNil THEN emptyCallback ELSE proc.Ready,
     Stop |-> IF proc.Stop.isNil THEN emptyCallback ELSE proc.Stop,
     Logger |-> IF proc.Logger.isNil THEN NewJSONLogger(n) ELSE proc.Logger,
     MonitorAddr |-> IF proc.MonitorAddr = "" THEN ":0" ELSE proc.MonitorAddr]

\* proc = sanitizeProcess(proc), as Serve does first (exco.go 255).
Sanitize ==
    /\ fn = "sanitizeProcess"
    /\ applied = 0
    /\ res' = sanitizeProcess(arg, 1)
    /\ applied' = 1
    /\ UNCHANGED <<serveVars, combVars, fn, arg>>

\* sanitizeProcess applied to a Process it has returned.
SanitizeAgain ==
    /\ fn = "sanitizeProcess"
    /\ applied >= 1
    /\ applied < MaxApplied
    /\ arg' = res
    /\ res' = sanitizeProcess(res, applied + 1)
    /\ applied' = applied + 1
    /\ UNCHANGED <<serveVars, combVars, fn>>

\* ---- Error (NewError, Wrap, Is, Unwrap) under errors.Is

\* Wrap calls that build one chain.
MaxChain == 3

\* Error codes ("TEST1", "TEST2", ...: one per link) and infos the caller
\* declares Errors with.
Codes == {<<"TEST", i>> : i \in 1..MaxChain}

Infos == {"test 1", "test 2"}

\* The nil error.
NoError == [kind |-> "nil"]

\* errors.New(msg): a pointer, so two calls give two different errors
\* (id tells them apart) even with one message.
StdErrors == {[kind |-> "std", id |-> i, msg |-> "test"] : i \in 1..2}

\* NewError(code, defaultInfo). A source location (runtime.Caller) is
\* modelled by what identifies the calling line: for declaredAt the code
\* declared there, for wrappedAt the number of the Wrap call (0: "").
NewError(code, defaultInfo) ==
    [kind |-> "Error", code |-> code, info |-> defaultInfo,
     declaredAt |-> code, wrappedAt |-> 0, data |-> "nil",
     parent |-> NoError]

\* Variant of Wrap that records the location but not the parent.
WrapDropsParent(e, err, at) == [e EXCEPT !.wrappedAt = at]

\* e.Wrap(err), called from location at: a copy of e with parent and
\* wrappedAt set.
Wrap(e, err, at) == [e EXCEPT !.parent = err, !.wrappedAt = at]

\* e.WithInfo(message) and e.WithData(data): copies of e with the field set.
WithInfo(e, message) == [e EXCEPT !.info = message]

WithData(e, data) == [e EXCEPT !.data = data]

\* &e: a pointer to an Error, which is an error too but not of type Error.
PtrTo(e) == [kind |-> "*Error", elem |-> e]

\* Variant of Is that compares the two Errors as wholes.
ErrorIsWholeValue(e, target) ==
    IF target = NoError THEN FALSE
    ELSE target.kind = "Error" /\ e = target

\* e.Is(target): target is an Error with e's code.
ErrorIs(e, target) ==
    IF target = NoError THEN FALSE
    ELSE target.kind = "Error" /\ e.code = target.code

\* e.Unwrap().
Unwrap(e) == e.parent

\* errors.Is(err, target) of the standard library: along the Unwrap chain
\* of err, a link matches when it equals target or its Is method says so.
\* Only an Error has Is and Unwrap methods.
RECURSIVE errorsIs(_, _)
errorsIs(err, target) ==
    IF err = NoError \/ target = NoError THEN err = target
    ELSE IF err = target THEN TRUE
    ELSE IF err.kind = "Error" /\ ErrorIs(err, target) THEN TRUE
    ELSE IF err.kind = "Error" /\ Unwrap(err) # NoError
        THEN errorsIs(Unwrap(err), target)
    ELSE FALSE

\* The Errors declared so far for the chain (arg[1] is the standard error
\* at the bottom).
ChainCodes == {arg[i].code : i \in 2..Len(arg)}

\* err = e.Wrap(err) with a newly declared Error e whose code is not yet in
\* the chain.
WrapStep ==
    /\ fn = "Wrap"
    /\ applied < MaxChain
    /\ \E code \in Codes \ ChainCodes, info \in Infos :
        /\ arg' = Append(arg, NewError(code, info))
        /\ res' = Wrap(NewError(code, info), res, applied + 1)
    /\ applied' = applied + 1
    /\ UNCHANGED <<serveVars, combVars, fn>>

\* ---- Attr[T] and its JSON encoding (enco.go 31-194)

\* The type parameters studied: int, as in the tests, and []int, a type
\* with a nil value.
AttrTypes == {"int", "[]int"}

\* A slice: nil, or a sequence of elements.
NilSlice == [isNil |-> TRUE, elems |-> <<>>]

Slice(elems) == [isNil |-> FALSE, elems |-> elems]

\* The zero value of T.
Zero(T) == IF T = "int" THEN 0 ELSE NilSlice

\* The values of T.
ValuesOf(T) ==
    IF T = "int" THEN {0, 30}
    ELSE {NilSlice, Slice(<<>>), Slice(<<30>>)}

\* JSON texts: null, a number, an array of numbers, a string.
JSONNull == [t |-> "null"]

JSONNumber(n) == [t |-> "num", n |-> n]

JSONArray(elems) == [t |-> "arr", elems |-> elems]

JSONString == [t |-> "str", s |-> "x"]

\* An object without the key.
Absent == [t |-> "absent"]

JSONFields ==
    {Absent, JSONNull, JSONNumber(0), JSONNumber(30), JSONArray(<<>>),
     JSONArray(<<30>>), JSONString}

\* The four constructors. Omit is the zero Attr[T].
Omit(T) == [present |-> FALSE, filled |-> FALSE, value |-> Zero(T)]

Null(T) == [present |-> TRUE, filled |-> FALSE, value |-> Zero(T)]

Empty(T) == [present |-> TRUE, filled |-> TRUE, value |-> Zero(T)]

Value(v) == [present |-> TRUE, filled |-> TRUE, value |-> v]

Attrs(T) == {Omit(T), Null(T), Empty(T)} \cup {Value(v) : v \in ValuesOf(T)}

\* json.Marshal of a value of T: a nil slice is encoded as null.
jsonMarshal(T, v) ==
    IF T = "int" THEN JSONNumber(v)
    ELSE IF v.isNil THEN JSONNull
    ELSE JSONArray(v.elems)

\* json.Unmarshal of a non-null text into a value of T: the value, or an
\* error when the text is not of T's kind.
jsonUnmarshal(T, data) ==
    IF T = "int" /\ data.t = "num" THEN [err |-> FALSE, value |-> data.n]
    ELSE IF T = "[]int" /\ data.t = "arr"
        THEN [err |-> FALSE, value |-> Slice(data.elems)]
    ELSE [err |-> TRUE, value |-> Zero(T)]

\* Variant of MarshalJSON that encodes an attribute that is present but
\* not filled by its value.
MarshalJSONNullAsValue(T, a) ==
    IF ~a.present THEN JSONNull
    ELSE jsonMarshal(T, a.value)

\* a.MarshalJSON().
MarshalJSON(T, a) ==
    IF ~a.present THEN JSONNull
    ELSE IF ~a.filled THEN JSONNull
    ELSE jsonMarshal(T, a.value)

\* a.UnmarshalJSON(data): the attribute afterwards and whether an error
\* was returned.
UnmarshalJSON(T, a, data) ==
    IF data = JSONNull THEN [err |-> FALSE, attr |-> Null(T)]
    ELSE IF jsonUnmarshal(T, data).err THEN [err |-> TRUE, attr |-> a]
    ELSE [err |-> FALSE, attr |-> Value(jsonUnmarshal(T, data).value)]

\* encoding/json decoding an object into a struct whose field is a: an
\* absent key leaves the field alone, any value present, null included,
\* goes to UnmarshalJSON.
DecodeField(T, a, field) ==
    IF field = Absent THEN [err |-> FALSE, attr |-> a]
    ELSE UnmarshalJSON(T, a, field)

\* encoding/json encoding a struct whose field is a. omitzero: the field
\* has the omitzero option and the toolchain honours it (Go 1.24 on), in
\* which case a zero field is left out.
EncodeField(T, a, omitzero) ==
    IF omitzero /\ a = Omit(T) THEN Absent
    ELSE MarshalJSON(T, a)

\* json.Unmarshal of an object into a zero struct with an Attr[T] field.
AttrDecode ==
    /\ fn = "UnmarshalJSON"
    /\ applied = 0
    /\ res' = DecodeField(arg.T, Omit(arg.T), arg.field)
    /\ applied' = 1
    /\ UNCHANGED <<serveVars, combVars, fn, arg>>

\* json.Marshal of a struct with an Attr[T] field.
AttrEncode ==
    /\ fn = "MarshalJSON"
    /\ applied = 0
    /\ res' = <<EncodeField(arg.T, arg.attr, arg.omitzero)>>
    /\ applied' = 1
    /\ UNCHANGED <<serveVars, combVars, fn, arg>>

\* json.Unmarshal of what json.Marshal gave, into a zero struct.
AttrDecodeBack ==
    /\ fn = "MarshalJSON"
    /\ applied = 1
    /\ res' = Append(res, DecodeField(arg.T, Omit(arg.T), res[1]))
    /\ applied' = 2
    /\ UNCHANGED <<serveVars, combVars, fn, arg>>

\* ---- Filled and Present (enco.go 208-238)

\* Attributes handed to Filled or Present in one call.
MaxAttrs == 3

\* The attributes a caller may hand over: only Filled() and Present() of
\* each are looked at, so one type parameter stands for all.
AnyAttrs == Attrs("int")

\* Variant of Filled whose loop returns at the first attribute, whatever it
\* is (the return true placed inside the loop).
FilledFirstOnly(attrs) ==
    IF attrs = <<>> THEN TRUE ELSE attrs[1].filled

\* Filled(attrs...): the loop returns false at the first attribute that is
\* not filled, and true after the last.
RECURSIVE Filled(_)
Filled(attrs) ==
    IF attrs = <<>> THEN TRUE
    ELSE IF ~attrs[1].filled THEN FALSE
    ELSE Filled(Tail(attrs))

\* Present(attrs...): the same loop over Present().
RECURSIVE Present(_)
Present(attrs) ==
    IF attrs = <<>> THEN TRUE
    ELSE IF ~attrs[1].present THEN FALSE
    ELSE Present(Tail(attrs))

\* A call of Filled.
FilledCall ==
    /\ fn = "Filled"
    /\ applied = 0
    /\ res' = Filled(arg)
    /\ applied' = 1
    /\ UNCHANGED <<serveVars, combVars, fn, arg>>

\* A call of Present.
PresentCall ==
    /\ fn = "Present"
    /\ applied = 0
    /\ res' = Present(arg)
    /\ applied' = 1
    /\ UNCHANGED <<serveVars, combVars, fn, arg>>

\* ---- an Attr[T] variable under the package's operations

\* Operations applied to one attribute.
MaxOps == 3

\* What a database driver hands to Scan: nil, a value of type T, or a value
\* of another type.
ScanNil == [kind |-> "nil"]

ScanOf(v) == [kind |-> "T", v |-> v]

ScanOther == [kind |-> "other"]

ScanValues(T) == {ScanNil, ScanOther} \cup {ScanOf(v) : v \in ValuesOf(T)}

\* Variant of Scan that stores the value and marks the attribute filled,
\* field by field, without marking it present.
ScanFillsOnly(T, a, value) ==
    IF value = ScanNil THEN Null(T)
    ELSE IF value.kind = "T" THEN [a EXCEPT !.filled = TRUE, !.value = value.v]
    ELSE a

\* a.Scan(value): Null for nil, else Value(value.(T)); the type assertion
\* panics on a value of another type, and the attribute is as it was.
Scan(T, a, value) ==
    IF value = ScanNil THEN Null(T)
    ELSE IF value.kind = "T" THEN Value(value.v)
    ELSE a

\* a = Omit(), Null(), Empty() or Value(v).
AttrAssign ==
    /\ fn = "Attr"
    /\ applied < MaxOps
    /\ \E a \in Attrs(arg.T) :
        /\ res' = a
        /\ arg' = [T |-> arg.T, op |-> "assign", input |-> a]
    /\ applied' = applied + 1
    /\ UNCHANGED <<serveVars, combVars, fn>>

\* a.UnmarshalJSON(data), as encoding/json calls it for a key that is there.
AttrUnmarshal ==
    /\ fn = "Attr"
    /\ applied < MaxOps
    /\ \E data \in JSONFields \ {Absent} :
        /\ res' = UnmarshalJSON(arg.T, res, data).attr
        /\ arg' = [T |-> arg.T, op |-> "UnmarshalJSON", input |-> data]
    /\ applied' = applied + 1
    /\ UNCHANGED <<serveVars, combVars, fn>>

\* a.Scan(value).
AttrScan ==
    /\ fn = "Attr"
    /\ applied < MaxOps
    /\ \E value \in ScanValues(arg.T) :
        /\ res' = Scan(arg.T, res, value)
        /\ arg' = [T |-> arg.T, op |-> "Scan", input |-> value]
    /\ applied' = applied + 1
    /\ UNCHANGED <<serveVars, combVars, fn>>

\* ---- Error.Is on its own

\* Errors as the caller may have built them: declared with a code and an
\* info, then perhaps given another info, data, and a parent by Wrap.
BuiltErrors ==
    {NewError(code, info) : code \in Codes, info \in Infos}
    \cup {WithData(Wrap(NewError(code, "test 1"), std, 1), "x") :
                code \in Codes, std \in StdErrors}
    \cup {WithInfo(NewError(code, "test 1"), "other") : code \in Codes}

\* The targets handed to Is: nil, standard errors, Errors, pointers to
\* Errors.
IsTargets ==
    {NoError} \cup StdErrors \cup BuiltErrors
        \cup {PtrTo(e) : e \in BuiltErrors}

\* A call of e.Is(target).
IsCall ==
    /\ fn = "Is"
    /\ applied = 0
    /\ res' = ErrorIs(arg.e, arg.target)
    /\ applied' = 1
    /\ UNCHANGED <<serveVars, combVars, fn, arg>>

PureFns ==
    {"sanitizeProcess", "Wrap", "UnmarshalJSON", "MarshalJSON", "Filled",
     "Present", "Is", "Attr"}

\* A function and an argument for it.
PureInit ==
    /\ ServeInit
    /\ CombIdle
    /\ fn \in PureFns
    /\ arg \in CASE fn = "sanitizeProcess" -> Processes
                [] fn = "Wrap" -> {<<e>> : e \in StdErrors}
                [] fn = "UnmarshalJSON" ->
                    [T : AttrTypes, field : JSONFields]
                [] fn \in {"Filled", "Present"} ->
                    UNION {[1..k -> AnyAttrs] : k \in 0..MaxAttrs}
                [] fn = "Is" -> [e : BuiltErrors, target : IsTargets]
                [] fn = "Attr" ->
                    [T : AttrTypes, op : {"var"}, input : {<<>>}]
                [] fn = "MarshalJSON" ->
                    UNION {[T : {T}, omitzero : BOOLEAN, attr : Attrs(T)] :
                                T \in AttrTypes}
    /\ res = CASE fn = "Wrap" -> arg[1]
              [] fn = "Attr" -> Omit(arg.T)
              [] OTHER -> <<>>
    /\ applied = 0

PureNext ==
    \/ Sanitize \/ SanitizeAgain
    \/ WrapStep
    \/ AttrDecode \/ AttrEncode \/ AttrDecodeBack
    \/ FilledCall \/ PresentCall
    \/ IsCall
    \/ AttrAssign \/ AttrUnmarshal \/ AttrScan

PureSpec == PureInit /\ [][PureNext]_vars

\* ------------------------------------------------------------------ claims

\* No goroutine of Serve and no handler can take a step: whatever happens
\* next must come from the caller or from an HTTP client.
AtRest == ~ENABLED ProgramNext

\* The health server bound its address (net.Listen succeeded).
Bound == healthPc \in {"listening", "serving", "done"}

StartReturned == servePc \in {"blocked", "returned"}

\* C1. In a run where the health server binds, Start returns and exactly one
\* stop signal is delivered, Stop is invoked exactly once and Serve returns:
\* once the program has come to rest after that one signal, both have
\* happened.
C1_StopOnceAndServeReturns ==
    (Bound /\ StartReturned /\ delivered = 1 /\ ~closed /\ AtRest)
        => (calls["Stop"] = 1 /\ servePc = "returned")

\* C2. A single stop signal is observed by both waiters: once the program
\* has come to rest after one delivered signal, the lifecycle watcher and
\* the health shutdown watcher are both past their receive.
C2_BothWaitersObserve ==
    (Bound /\ delivered = 1 /\ ~closed /\ AtRest)
        => (lifePc # "wait" /\ watchPc # "wait")

\* C3. When Serve has returned, Stop has returned, the root context is
\* cancelled, the health server's shutdown has completed and none of the
\* tasks Serve spawned is still running or blocked.
C3_ReturnedMeansAllDone ==
    servePc = "returned"
        => /\ lifePc = "done"
           /\ mainCtx = "cancelled"
           /\ healthPc \in {"done", "failed"}
           /\ watchPc \in {"none", "done"}
           /\ \A p \in HealthPaths : active[p] = 0

\* C4. A Start failure does not cancel the root context and leaves Serve
\* blocked: after Start has returned an error, as long as the lifecycle
\* watcher has not finished handling a stop signal, the root context is
\* live and Serve has not returned.
C4_StartFailureKeepsBlocking ==
    (StartReturned /\ ~startErr.isNil /\ lifePc # "done")
        => (mainCtx = "live" /\ servePc = "blocked")

\* Start has failed, no signal was ever sent, the health server is up, the
\* program is at rest and Serve is still blocked.
C4_Witness ==
    /\ servePc = "blocked"
    /\ healthPc = "serving"
    /\ ~startErr.isNil
    /\ delivered = 0
    /\ ~closed
    /\ AtRest

\* C5. The root context is cancelled only if the lifecycle watcher has
\* received the stop signal and Stop has already returned.
C5_CancelOnlyAfterStop ==
    mainCtx = "cancelled"
        => /\ lifePc = "done"
           /\ calls["Stop"] = 1
           /\ "Stop process" \in logs

\* The root context is cancelled in a run where Start failed, the bind
\* failed and Stop failed.
C5_Witness ==
    /\ mainCtx = "cancelled"
    /\ StartReturned
    /\ ~startErr.isNil
    /\ ~stopErr.isNil
    /\ healthPc = "failed"

\* C6. Serve never returns while the root context is not cancelled.
C6_ReturnOnlyAfterCancel == servePc = "returned" => mainCtx = "cancelled"

\* Serve has returned.
C6_Witness == servePc = "returned" /\ startErr.isNil

\* The lifecycle state of the supervisor: Starting until Start has
\* returned, Running from then on, Stopping once the lifecycle watcher has
\* received the stop signal, Stopped once Serve has returned.
Phase ==
    IF servePc = "returned" THEN "Stopped"
    ELSE IF lifePc # "wait" THEN "Stopping"
    ELSE IF servePc = "blocked" THEN "Running"
    ELSE "Starting"

\* C7 as stated. The lifecycle follows only Starting -> Running,
\* Running -> Stopping and Stopping -> Stopped, and Stop is never invoked
\* before Start has returned.
C7_OnlyThreeTransitions ==
    [][/\ Phase' # Phase =>
            <<Phase, Phase'>> \in {<<"Starting", "Running">>,
                                   <<"Running", "Stopping">>,
                                   <<"Stopping", "Stopped">>}
       /\ calls'["Stop"] # calls["Stop"] => StartReturned]_vars

\* C7 as amended. The lifecycle follows only Starting -> Running,
\* Running -> Stopping, Starting -> Stopping and Stopping -> Stopped: the
\* stop signal may be handled, and Stop invoked, before Start has returned.
C7_LifecycleTransitions ==
    [][Phase' # Phase =>
            <<Phase, Phase'>> \in {<<"Starting", "Running">>,
                                   <<"Running", "Stopping">>,
                                   <<"Starting", "Stopping">>,
                                   <<"Stopping", "Stopped">>}]_vars

\* Stop is executing while Start has not returned.
C7_Witness == lifePc = "inStop" /\ servePc = "inStart"

\* C8. Within one run Start is invoked exactly once and Stop at most once,
\* whatever they return and however many stop signals arrive.
C8_CallbacksInvokedOnce ==
    /\ calls["Start"] <= 1
    /\ calls["Stop"] <= 1
    /\ servePc # "start" => calls["Start"] = 1

\* Two signals were sent, Start and Stop both failed, and Serve has
\* returned.
C8_Witness ==
    /\ delivered = 2
    /\ ~startErr.isNil
    /\ ~stopErr.isNil
    /\ calls["Stop"] = 1
    /\ servePc = "returned"

\* The state of the supervisor that a health request must not touch.
supervisorVars ==
    <<stopSignal, closed, delivered, mainCtx, stopCtx, servePc, startErr,
      lifePc, stopErr, healthPc, watchPc, inShutdown, calls["Start"],
      calls["Stop"], logs>>

\* C9. Serving a /live or /ready request changes no supervisor state, and
\* each request invokes its backing callback exactly once: the step that
\* accepts a request on a health path adds one invocation of that path's
\* callback and none of the other, and the step that answers it adds none.
C9_HealthRequestsFrame ==
    [][(requests' # requests \/ active' # active \/
        lastExchange' # lastExchange) =>
            /\ UNCHANGED supervisorVars
            /\ \A p \in HealthPaths :
                calls'[mux(p)] - calls[mux(p)] =
                    IF active'[p] > active[p] THEN 1 ELSE 0]_vars

\* Both endpoints were asked, one check failed, and the supervisor is still
\* running with its root context live.
C9_Witness ==
    /\ calls["Live"] = 1
    /\ calls["Ready"] = 1
    /\ \A p \in HealthPaths : active[p] = 0
    /\ lastExchange.status = StatusServiceUnavailable
    /\ mainCtx = "live"
    /\ lifePc = "wait"

\* C10. For each health endpoint the response is 200 with body "OK" exactly
\* when the backing callback returned nil, and 503 with the error's message
\* as the body exactly when it returned a non-nil error.
C10_HealthResponse ==
    lastExchange.path \in HealthPaths =>
        /\ (lastExchange.status = StatusOK /\ lastExchange.body = "OK")
                <=> lastExchange.err.isNil
        /\ (lastExchange.status = StatusServiceUnavailable
                /\ lastExchange.body = lastExchange.err.msg)
                <=> ~lastExchange.err.isNil

\* /ready was answered 503 "not ready".
C10_Witness ==
    /\ lastExchange.path = "/ready"
    /\ lastExchange.err = Err("not ready")
    /\ lastExchange.status = StatusServiceUnavailable
    /\ lastExchange.body = "not ready"

\* C11. When the bind fails the health subsystem is abandoned and the
\* lifecycle is unaffected: no shutdown watcher exists, Start is still
\* invoked, and once a stop signal has been sent and the program has come
\* to rest, Stop has run once and Serve has returned.
C11_BindFailureKeepsLifecycle ==
    healthPc = "failed" =>
        /\ watchPc = "none"
        /\ AtRest => calls["Start"] = 1
        /\ (delivered >= 1 /\ AtRest)
                => (calls["Stop"] = 1 /\ servePc = "returned")

\* The bind failed, one signal was sent afterwards or before, Stop ran and
\* Serve returned.
C11_Witness ==
    /\ healthPc = "failed"
    /\ delivered = 1
    /\ ~closed
    /\ calls["Start"] = 1
    /\ calls["Stop"] = 1
    /\ servePc = "returned"

\* ---- claims about the combinators (checked under CombSpec)

\* Invocations of the callback with Go index i so far.
CallsOf(i) ==
    Cardinality({k \in DOMAIN events :
                    events[k].kind = "call" /\ events[k].cb = i})

\* time.Sleep calls so far.
Sleeps == Cardinality({k \in DOMAIN events : events[k].kind = "sleep"})

\* The first n callbacks invoked once each, in input order, with the
\* caller's context, and nothing else.
CalledInOrder(n) == [k \in 1..n |-> Event("call", k - 1, "caller")]

\* Position in outs (from 1) of the first non-nil result; 0 when all are nil.
FirstFailure ==
    IF \E k \in DOMAIN outs : ~outs[k].isNil
        THEN CHOOSE k \in DOMAIN outs :
                /\ ~outs[k].isNil
                /\ \A j \in 1..(k - 1) : outs[j].isNil
        ELSE 0

\* Retry's first successful attempt (from 1) among the retries allowed;
\* 0 when every one of them fails.
FirstSuccess ==
    IF \E k \in 1..retries : outs[k].isNil
        THEN CHOOSE k \in 1..retries :
                /\ outs[k].isNil
                /\ \A j \in 1..(k - 1) : ~outs[j].isNil
        ELSE 0

\* C12. Sequential: when callback i is the first to fail, exactly callbacks
\* 0..i have been invoked, once each and in input order, and the result is
\* callback i's error; when none fails, all have been invoked once in order
\* and the result is nil.
C12_SequentialShortCircuit ==
    (op = "Sequential" /\ cpc = "done") =>
        IF FirstFailure > 0
            THEN /\ events = CalledInOrder(FirstFailure)
                 /\ ret = outs[FirstFailure]
            ELSE /\ events = CalledInOrder(Len(outs))
                 /\ ret = Nil

\* Sequential has returned the error of the second of three callbacks; the
\* third would have failed too.
C12_Witness ==
    /\ op = "Sequential"
    /\ cpc = "done"
    /\ Len(outs) = 3
    /\ FirstFailure = 2
    /\ ~outs[3].isNil
    /\ outs[3] # outs[2]

\* C16. Retry with n >= 1: when every attempt fails, cb has been invoked
\* exactly n times and the result is the n-th attempt's error; when attempt
\* k is the first to succeed, cb has been invoked exactly k times and the
\* result is nil.
C16_RetryAttempts ==
    (op = "Retry" /\ retries >= 1 /\ cpc = "done") =>
        IF FirstSuccess = 0
            THEN /\ CallsOf(0) = retries
                 /\ ret = outs[retries]
            ELSE /\ CallsOf(0) = FirstSuccess
                 /\ ret = Nil

\* Retry has returned after three failed attempts whose errors differ.
C16_Witness ==
    /\ op = "Retry"
    /\ cpc = "done"
    /\ retries = 3
    /\ FirstSuccess = 0
    /\ outs[1] # outs[3]

\* C17. Retry sleeps only between consecutive attempts: when all n attempts
\* fail there have been exactly n-1 delays and the last thing Retry did
\* before returning was an attempt; when attempt k succeeds there have been
\* exactly k-1 delays.
C17_DelaysOnlyBetweenAttempts ==
    (op = "Retry" /\ retries >= 1 /\ cpc = "done") =>
        IF FirstSuccess = 0
            THEN /\ Sleeps = retries - 1
                 /\ events[Len(events)].kind = "call"
            ELSE Sleeps = FirstSuccess - 1

\* C18. Retry with n <= 0 never invokes cb, performs no delay, and returns
\* nil.
C18_RetryNoAttempts ==
    (op = "Retry" /\ retries <= 0) =>
        /\ events = <<>>
        /\ cpc \in {"run", "done"}
        /\ cpc = "done" => ret = Nil

\* Retry has returned from a call with a negative retries argument and a
\* callback that would have failed.
C18_Witness ==
    /\ op = "Retry"
    /\ retries < 0
    /\ ~outs[1].isNil
    /\ cpc = "done"

\* C19. Atomic: commit is invoked exactly once; when it returns nil,
\* rollback is not invoked and the result is nil; when it returns an error,
\* rollback is invoked exactly once, after commit, and the result is
\* rollback's return value.
C19_AtomicRollback ==
    /\ op = "Atomic" => (CallsOf(0) <= 1 /\ CallsOf(1) <= 1)
    /\ (op = "Atomic" /\ cpc = "done") =>
        IF Out(0).isNil
            THEN /\ events = CalledInOrder(1)
                 /\ ret = Nil
            ELSE /\ events = CalledInOrder(2)
                 /\ ret = Out(1)

\* Atomic has returned nil although commit failed: the rollback succeeded.
C19_Witness ==
    /\ op = "Atomic"
    /\ cpc = "done"
    /\ ~Out(0).isNil
    /\ Out(1).isNil
    /\ CallsOf(1) = 1
    /\ ret = Nil

\* Occurrences of e in the sequence es.
Count(es, e) == Cardinality({k \in DOMAIN es : es[k] = e})

\* C13. Parallel: every callback is invoked exactly once whatever the
\* others return, and Parallel returns only after every callback has
\* returned and every task has ended.
C13_ParallelFullJoin ==
    op = "Parallel" =>
        /\ \A i \in DOMAIN outs : CallsOf(i - 1) <= 1
        /\ cpc = "done" =>
            \A i \in DOMAIN outs :
                /\ CallsOf(i - 1) = 1
                /\ Count(events, Event("return", i - 1, "caller")) = 1
                /\ task[i] = "done"

\* Parallel has returned from a call of two callbacks in which the second
\* was invoked only after the first had failed.
C13_Witness ==
    /\ op = "Parallel"
    /\ cpc = "done"
    /\ Len(outs) = 2
    /\ ~outs[1].isNil
    /\ \E a, b \in DOMAIN events :
        /\ a < b
        /\ events[a] = Event("return", 0, "caller")
        /\ events[b] = Event("call", 1, "caller")

\* C14. Parallel returns nil if and only if every callback returned nil;
\* otherwise the errors held by the returned aggregate are, counted with
\* their repetitions, the non-nil errors the callbacks returned.
C14_ParallelAggregate ==
    (op = "Parallel" /\ cpc = "done") =>
        /\ ret.isNil <=> \A i \in DOMAIN outs : outs[i].isNil
        /\ ~ret.isNil =>
            \A e \in CombResults \ {Nil} :
                Count(ret.errs, e) = Count(outs, e)

\* Parallel has returned both callbacks' errors, in the order opposite to
\* the callbacks' order.
C14_Witness ==
    /\ op = "Parallel"
    /\ cpc = "done"
    /\ Len(outs) = 2
    /\ ~outs[1].isNil
    /\ ~outs[2].isNil
    /\ outs[1] # outs[2]
    /\ ~ret.isNil
    /\ ret.errs = <<outs[2], outs[1]>>

\* C15. Parallel hands the caller's own context to every callback and
\* never cancels it: every invocation is made with the caller's context,
\* and that context becomes done in no step of Parallel or of its tasks.
C15_ParallelSharedContext ==
    [][op = "Parallel" =>
        /\ events' # events => events'[Len(events')].ctx = "caller"
        /\ ctxDone' # ctxDone =>
            UNCHANGED <<cpc, idx, ret, events, task, errChan, wg, errs>>]_vars

\* One callback has failed while its sibling is still running, and the
\* context they share is not done.
C15_Witness ==
    /\ op = "Parallel"
    /\ Len(outs) = 2
    /\ ~outs[1].isNil
    /\ task[1] \in {"sent", "done"}
    /\ task[2] = "running"
    /\ ~ctxDone

\* C20. Timeout invokes cb exactly once, does not return before cb has
\* returned, and returns exactly cb's return value, whether or not the
\* deadline has passed.
C20_TimeoutReturnsCallbackResult ==
    op = "Timeout" =>
        /\ CallsOf(0) <= 1
        /\ cpc = "done" =>
            /\ CallsOf(0) = 1
            /\ Count(events, Event("return", 0, "child")) = 1
            /\ ret = Out(0)

\* Timeout has returned nil: cb returned nil after the deadline had passed.
C20_Witness ==
    /\ op = "Timeout"
    /\ cpc = "done"
    /\ Out(0).isNil
    /\ events = <<Event("call", 0, "child"), Event("deadline", 0, "child"),
                  Event("return", 0, "child")>>
    /\ ret = Nil

\* Derived contexts of the Timeout closure that have not been released.
Unreleased ==
    Cardinality({i \in DOMAIN earlier : earlier[i] # "released"})
        + (IF child \in {"live", "expired"} THEN 1 ELSE 0)

\* C21: whenever no call of the Timeout closure is in progress (before a
\* call and after each return, whether the callback succeeded, failed or ran
\* into the deadline), none of the contexts it derived is unreleased: the
\* context of a call is released when the call returns.
C21_ChildReleasedOnReturn ==
    op = "Timeout" =>
        /\ cpc \in {"run", "done"} => Unreleased = 0
        /\ cpc = "done" => child = "released"

\* A second call has returned after its deadline fired and its callback
\* failed, the first call's context having been released.
C21_Witness ==
    /\ op = "Timeout"
    /\ cpc = "done"
    /\ Len(earlier) = 1
    /\ ~ret.isNil
    /\ Count(events, Event("deadline", 0, "child")) = 1
    /\ child = "released"

\* The context named by an event's ctx field is done: the caller's when it
\* has been cancelled, the derived one when its timer has fired, when it
\* has been released or when its parent, the caller's, is done.
IsDone(ctx) ==
    IF ctx = "caller" THEN ctxDone
    ELSE ctxDone \/ child \in {"expired", "released"}

\* The context the running callback of Timeout was invoked with.
HandedCtx == events[Len(events)
                    - (IF events[Len(events)].kind = "deadline" THEN 1 ELSE 0)].ctx

\* C22: while the callback of Timeout(cb, d) runs, the context it was handed
\* is not seen undone later than d ticks after the invocation (a cancelled
\* caller's context makes it done earlier), and no step of Timeout makes the
\* caller's context done: that context changes only by the caller's doing.
C22_DeadlineReachesCallback ==
    /\ [](op = "Timeout" /\ cpc = "inCb" /\ ~IsDone(HandedCtx)
            => clock <= timeout)
    /\ [][op = "Timeout" /\ ctxDone' # ctxDone =>
            \/ cpc = "done" /\ cpc' = "run"
            \/ UNCHANGED <<cpc, child, clock, earlier, ret, events>>]_vars

\* The callback runs on past the deadline with the caller's context live:
\* the context it holds is done.
C22_Witness ==
    /\ op = "Timeout"
    /\ cpc = "inCb"
    /\ timeout > 0
    /\ clock > timeout
    /\ ~ctxDone
    /\ HandedCtx = "child"
    /\ IsDone(HandedCtx)

\* C23: IgnoreError(cb) invokes cb once, with the caller's context, and
\* returns nil whatever cb returned.
C23_IgnoreErrorReturnsNil ==
    op = "IgnoreError" =>
        /\ cpc = "run" => events = <<>>
        /\ cpc = "done" =>
            /\ events = <<Event("call", 0, "caller")>>
            /\ ret = Nil

\* IgnoreError has returned and its callback had failed.
C23_Witness ==
    /\ op = "IgnoreError"
    /\ cpc = "done"
    /\ ~Out(0).isNil
    /\ CallsOf(0) = 1

\* A cancellation or deadline error, as a callback returns it when the
\* context it works under is done.
IsCancellation(e) == e = DeadlineExceeded

\* What the callbacks invoked so far have returned or will return: for
\* Retry the results of the attempts made, else those of the callbacks
\* called.
InvokedResults ==
    IF op = "Retry" THEN {outs[k] : k \in 1..CallsOf(0)}
    ELSE {Out(events[k].cb) : k \in {j \in DOMAIN events : events[j].kind = "call"}}

\* C24 as stated: when Sequential, Parallel, Timeout, Retry or Atomic has
\* returned and a callback it invoked returned a cancellation or deadline
\* error, its own result is not nil.
C24_NoCombinatorSwallows ==
    op \in {"Sequential", "Parallel", "Timeout", "Retry", "Atomic"}
        /\ cpc = "done"
        /\ (\E e \in InvokedResults : IsCancellation(e))
        => ~ret.isNil

\* C24, amended: Sequential, Parallel and Timeout return a non-nil result
\* when a callback they invoked returned a cancellation or deadline error;
\* Retry does when its last attempt returned one, and Atomic when its
\* rollback returned one.
C24_SwallowedOnlyByLaterSuccess ==
    cpc = "done" =>
        /\ op \in {"Sequential", "Parallel", "Timeout"}
            /\ (\E e \in InvokedResults : IsCancellation(e))
            => ~ret.isNil
        /\ op = "Retry" /\ CallsOf(0) > 0 /\ IsCancellation(outs[CallsOf(0)])
            => ~ret.isNil
        /\ op = "Atomic" /\ CallsOf(1) > 0 /\ IsCancellation(Out(1))
            => ~ret.isNil

\* Retry has returned the deadline error of its last attempt, the second
\* or a later one.
C24_Witness ==
    /\ op = "Retry"
    /\ cpc = "done"
    /\ CallsOf(0) >= 2
    /\ IsCancellation(outs[CallsOf(0)])
    /\ ret = DeadlineExceeded

\* ---- sanitizeProcess

CallbackFields == {"Start", "Live", "Ready", "Stop"}

\* C25: the Process sanitizeProcess returns has four non-nil callbacks, a
\* non-nil Logger and a non-empty MonitorAddr; a field the caller supplied
\* is the caller's, an absent callback is one that returns nil, and an
\* absent monitor address is ":0".
C25_SanitizedProcess ==
    fn = "sanitizeProcess" /\ applied = 1 =>
        /\ \A f \in CallbackFields :
            /\ ~res[f].isNil
            /\ ~arg[f].isNil => res[f] = arg[f]
            /\ arg[f].isNil => res[f].ret = Nil
        /\ ~res.Logger.isNil
        /\ ~arg.Logger.isNil => res.Logger = arg.Logger
        /\ res.MonitorAddr # ""
        /\ arg.MonitorAddr # "" => res.MonitorAddr = arg.MonitorAddr
        /\ arg.MonitorAddr = "" => res.MonitorAddr = ":0"

\* A Process with only Start and Ready set has been normalized.
C25_Witness ==
    /\ fn = "sanitizeProcess"
    /\ applied = 1
    /\ ~arg.Start.isNil /\ ~arg.Ready.isNil
    /\ arg.Live.isNil /\ arg.Stop.isNil /\ arg.Logger.isNil
    /\ arg.MonitorAddr = ""
    /\ res.Stop = emptyCallback
    /\ res.MonitorAddr = ":0"

\* C26: normalizing a normalized Process changes none of its six fields.
C26_SanitizeIdempotent ==
    fn = "sanitizeProcess" /\ applied >= 2 => res = arg

\* A Process that had no Logger and no Stop has been normalized twice.
C26_Witness ==
    /\ fn = "sanitizeProcess"
    /\ applied = 2
    /\ arg.Logger = NewJSONLogger(1)
    /\ arg.Stop = emptyCallback
    /\ res = arg

\* ---- Serve: the contexts of Stop and Start

\* C27: the context handed to Stop is made for that call from
\* context.Background(): it exists only once the lifecycle watcher has
\* received the signal, it is not done while Stop executes, whatever the
\* root context and the shutdown of the health server do meanwhile, and it
\* is released only when Stop has returned.
C27_StopContextLiveDuringStop ==
    /\ lifePc = "wait" <=> stopCtx = "none"
    /\ lifePc \in {"received", "inStop", "stopped"} => stopCtx = "live"
    /\ stopCtx = "cancelled" <=> lifePc = "done"

\* Stop is executing, invoked once, while Start is still executing.
C27_Witness ==
    /\ lifePc = "inStop"
    /\ stopCtx = "live"
    /\ calls["Stop"] = 1
    /\ servePc = "inStart"

\* The context Start is invoked with: proc.Start(mainCtx).
StartCtx == mainCtx

\* C28: Start holds the root context. When the lifecycle watcher has
\* finished handling the stop signal while Start is still executing, the
\* context Start holds is done; and the step in which Start returns, with
\* an error or without, leaves the root context as it was.
C28_RootContextReachesStart ==
    /\ [](servePc = "inStart" /\ lifePc = "done" => StartCtx = "cancelled")
    /\ [][servePc = "inStart" /\ servePc' # "inStart" =>
            /\ mainCtx' = mainCtx
            /\ StartCtx' = StartCtx]_vars

\* Start is still executing after the lifecycle watcher has ended.
C28_Witness ==
    /\ servePc = "inStart"
    /\ lifePc = "done"
    /\ calls["Stop"] = 1
    /\ StartCtx = "cancelled"

\* ---- Error

\* C29: for the error built by one or more successive Wrap calls of Errors
\* with pairwise distinct codes on top of a standard error, errors.Is holds
\* between the outermost error and every Error of the chain, as declared,
\* and the standard error at the bottom.
C29_IsFindsEveryLink ==
    fn = "Wrap" /\ applied >= 1 =>
        \A i \in DOMAIN arg : errorsIs(res, arg[i])

\* A chain of three Errors over a standard error.
C29_Witness ==
    /\ fn = "Wrap"
    /\ applied = 3
    /\ Len(arg) = 4
    /\ arg[1].kind = "std"
    /\ res.parent.parent.parent = arg[1]
    /\ errorsIs(res, arg[1])
    /\ errorsIs(res, arg[2])

\* ---- Attr

\* What decoding an object into a zero struct gives, in the words of C30:
\* Omit for an absent key, Null for null, and for a value of T's kind an
\* attribute that is present and filled and holds that value, zero or not.
DecodesAsStated ==
    fn = "UnmarshalJSON" /\ applied = 1 =>
        /\ arg.field = Absent =>
            /\ res.attr = Omit(arg.T)
            /\ ~res.attr.present /\ ~res.attr.filled
        /\ arg.field = JSONNull =>
            /\ res.attr = Null(arg.T)
            /\ res.attr.present /\ ~res.attr.filled
        /\ arg.T = "int" /\ arg.field.t = "num" =>
            /\ ~res.err
            /\ res.attr.present /\ res.attr.filled
            /\ res.attr.value = arg.field.n
        /\ arg.T = "[]int" /\ arg.field.t = "arr" =>
            /\ ~res.err
            /\ res.attr.present /\ res.attr.filled
            /\ res.attr.value = Slice(arg.field.elems)

C31_FilledPresentAll ==
    /\ fn = "Filled" /\ applied = 1 =>
        /\ res <=> \A i \in DOMAIN arg : arg[i].filled
        /\ arg = <<>> => res
    /\ fn = "Present" /\ applied = 1 =>
        /\ res <=> \A i \in DOMAIN arg : arg[i].present
        /\ arg = <<>> => res

\* Filled has answered false for three attributes of which only the last
\* is not filled.
C31_Witness ==
    /\ fn = "Filled"
    /\ applied = 1
    /\ Len(arg) = 3
    /\ arg[1].filled /\ arg[2].filled /\ ~arg[3].filled
    /\ res = FALSE

\* ---- Serve: a failing Stop, a Start that has not returned

\* C32: a failing Stop does not block shutdown. Once Stop has returned an
\* error the lifecycle watcher is at its cancels or past them: at them it
\* can take the step, past them the root context is cancelled and a Serve
\* blocked on it can return; and when the program has come to rest, the
\* watcher has ended and Serve has returned.
C32_FailingStopStillShutsDown ==
    ~stopErr.isNil =>
        /\ lifePc \in {"stopped", "done"}
        /\ lifePc = "stopped" => ENABLED LifeCancel
        /\ lifePc = "done" => mainCtx = "cancelled"
        /\ lifePc = "done" /\ servePc = "blocked" => ENABLED ServeReturn
        /\ AtRest => lifePc = "done" /\ servePc = "returned"

\* Stop failed, its error was logged, and Serve has returned all the same.
C32_Witness ==
    /\ ~stopErr.isNil
    /\ stopErr.msg \in logs
    /\ lifePc = "done"
    /\ servePc = "returned"
    /\ AtRest

\* C33: Serve never returns before Start has returned. While Start
\* executes, Serve cannot return, also when the stop signal has been handled
\* and the root context is cancelled; the calling path leaves Start only
\* for the wait on the root context, and returns only from that wait.
C33_NoReturnBeforeStartReturns ==
    /\ [](servePc = "inStart" => ~ENABLED ServeReturn)
    /\ [][/\ servePc = "inStart" => servePc' \in {"inStart", "blocked"}
          /\ servePc' = "returned" => servePc \in {"blocked", "returned"}]_vars

\* Start is still executing though Stop has run and the root context is
\* cancelled: Serve cannot return.
C33_Witness ==
    /\ servePc = "inStart"
    /\ calls["Start"] = 1
    /\ mainCtx = "cancelled"
    /\ stopCtx = "cancelled"
    /\ ~ENABLED ServeReturn

\* ---- Parallel and Retry: termination, the context

\* C34: Parallel does not deadlock on its own synchronization. A task whose
\* callback has returned can send its result at once, the collecting loop
\* finds a result for each of its receives, a call that has not returned
\* has a step to take, and with callbacks that return every call returns,
\* in every interleaving; with no callbacks it returns nil.
C34_ParallelTerminates ==
    /\ [](op = "Parallel" =>
            /\ \A i \in DOMAIN task : task[i] = "running" => ENABLED TaskSend(i)
            /\ cpc = "collect" /\ idx < Len(outs) => errChan # <<>>
            /\ cpc # "done" => ENABLED ParallelNext
            /\ cpc = "done" /\ outs = <<>> => ret = Nil)
    /\ (op = "Parallel") ~> (cpc = "done")

\* Parallel has returned after two callbacks that ran at the same time:
\* both were called before either returned.
C34_Witness ==
    /\ op = "Parallel"
    /\ cpc = "done"
    /\ Len(outs) = 2
    /\ Count(events, Event("return", 1, "caller")) = 1
    /\ events[Len(events)].kind = "return"
    /\ events[Len(events) - 1].kind = "return"
    /\ wg = 0

\* The attempts Retry makes as its arguments and the callback's results
\* alone decide them: none for retries <= 0, else up to the first success,
\* else all; and the failures among them.
AttemptsDue ==
    IF retries <= 0 THEN 0
    ELSE IF FirstSuccess = 0 THEN retries
    ELSE FirstSuccess

FailuresDue ==
    IF retries <= 0 THEN 0
    ELSE IF FirstSuccess = 0 THEN retries
    ELSE FirstSuccess - 1

\* C35: Retry does not observe the context. Whether or not the caller's
\* context is done, at the start or from some point on, the next attempt
\* and the next delay are taken when they are due, and at return the
\* callback has been invoked AttemptsDue times and Retry has slept once
\* after each of the FailuresDue failures.
C35_RetryIgnoresContext ==
    op = "Retry" =>
        /\ cpc = "run" /\ RetryLoopCond => ENABLED RetryAttempt
        /\ cpc = "sleep" => ENABLED RetrySleep
        /\ cpc = "done" =>
            /\ CallsOf(0) = AttemptsDue
            /\ Sleeps = FailuresDue
            /\ Len(events) = AttemptsDue + FailuresDue

\* Retry has made three failing attempts and slept three times under a
\* context that is done.
C35_Witness ==
    /\ op = "Retry"
    /\ cpc = "done"
    /\ ctxDone
    /\ retries = 3
    /\ CallsOf(0) = 3
    /\ Sleeps = 3

\* ---- Error.Is

\* C36: e.Is(target) is true exactly when target is an Error with e's
\* code, whatever the info, data, locations and parent of the two; it is
\* false for nil and for a target that is not an Error.
C36_IsByCodeOnly ==
    fn = "Is" /\ applied = 1 =>
        /\ res <=> (arg.target.kind = "Error" /\ arg.target.code = arg.e.code)
        /\ arg.target = NoError => ~res
        /\ arg.target.kind \in {"std", "*Error"} => ~res

\* Is has answered true for two Errors of one code that differ in info,
\* data, wrap location and parent.
C36_Witness ==
    /\ fn = "Is"
    /\ applied = 1
    /\ res = TRUE
    /\ arg.target.kind = "Error"
    /\ arg.e.info # arg.target.info
    /\ arg.e.data # arg.target.data
    /\ arg.e.wrappedAt # arg.target.wrappedAt
    /\ arg.e.parent # arg.target.parent

\* ---- Attr: filled implies present

\* C37: an attribute variable that starts as the zero value and is then
\* assigned from Omit, Null, Empty or Value, decoded into by UnmarshalJSON
\* or scanned into by Scan, in any sequence, is never filled without being
\* present.
C37_FilledImpliesPresent ==
    fn = "Attr" => (res.filled => res.present)

\* A value of type T was scanned into an attribute as the third operation
\* on it; the attribute is filled and present.
C37_Witness ==
    /\ fn = "Attr"
    /\ applied = 3
    /\ arg.op = "Scan"
    /\ arg.input.kind = "T"
    /\ res.filled /\ res.present

====
